---------------------------- MODULE Spec2Model ----------------------------
(***************************************************************************)
(* Rotating cube with diffuse lighting (claseex/src/main.rs).              *)
(*                                                                         *)
(* The program works on f32 values.  Every real number is held here as an  *)
(* integer count of 1/Scale (fixed point), every product is rounded to the *)
(* nearest 1/Scale as an f32 product is rounded to the nearest f32.        *)
(* Angles in degrees and times in seconds are held as counts of 1/Quarter  *)
(* (all such values are exact in f32: they are dyadic).  Angles in radians *)
(* are held as counts of pi/144 (1.25 degrees), the step of the sine       *)
(* table.                                                                  *)
(***************************************************************************)
EXTENDS Integers, Sequences, FiniteSets, TLC

\* ------------------------------------------------------------------------
\* Number representation
\* ------------------------------------------------------------------------

\* Fixed-point resolution of an f32 quantity: value = count / Scale.
Scale == 1000

\* Degrees and seconds of the frame loop: value = count / Quarter.
Quarter == 4

\* Half a turn (pi radians) in radian units of pi/144.
HalfTurn == 144

Min(a, b) == IF a < b THEN a ELSE b

Max(a, b) == IF a > b THEN a ELSE b

\* f32 product a * b of two fixed-point values, rounded to nearest.
FMul(a, b) == (a * b + Scale \div 2) \div Scale

\* f32 quotient a / b (b > 0) of two fixed-point values, rounded to nearest.
FDiv(a, b) == (2 * a * Scale + b) \div (2 * b)

RECURSIVE SqrtIter(_, _, _)
SqrtIter(n, lo, hi) ==
    IF lo >= hi THEN lo
    ELSE LET mid == (lo + hi + 1) \div 2
         IN  IF mid * mid <= n THEN SqrtIter(n, mid, hi)
                               ELSE SqrtIter(n, lo, mid - 1)

\* Square root of a non-negative integer, rounded to nearest.
ISqrt(n) ==
    LET r == SqrtIter(n, 0, 46340)
    IN  IF n - r * r > r THEN r + 1 ELSE r

\* 1000 * sin(k * 1.25 degrees), k = 0 .. 72, rounded to nearest.
SinTable ==
    << 0, 22, 44, 65, 87, 109, 131, 152, 174, 195,
       216, 238, 259, 280, 301, 321, 342, 362, 383, 403,
       423, 442, 462, 481, 500, 519, 537, 556, 574, 591,
       609, 626, 643, 659, 676, 692, 707, 722, 737, 752,
       766, 780, 793, 806, 819, 831, 843, 855, 866, 877,
       887, 897, 906, 915, 924, 932, 940, 947, 954, 960,
       966, 971, 976, 981, 985, 988, 991, 994, 996, 998,
       999, 1000, 1000 >>

\* f32::sin of an angle in radians (counts of pi/144), any sign and size.
Sin(a) ==
    LET r == a % (2 * HalfTurn)
        q == HalfTurn \div 2
    IN  IF r <= q THEN SinTable[r + 1]
        ELSE IF r <= 2 * q THEN SinTable[2 * q - r + 1]
        ELSE IF r <= 3 * q THEN 0 - SinTable[r - 2 * q + 1]
        ELSE 0 - SinTable[4 * q - r + 1]

\* f32::cos of an angle in radians (counts of pi/144).
Cos(a) == Sin(a + HalfTurn \div 2)

\* f32::to_radians: degrees (counts of 1/4 degree) to radians (counts of
\* pi/144): d/4 * pi/180 = (d/5) * pi/144.
ToRadians(d) == (d * HalfTurn) \div (180 * Quarter)

\* ------------------------------------------------------------------------
\* Vector3 and Color
\* ------------------------------------------------------------------------

Vec(x, y, z) == [x |-> x, y |-> y, z |-> z]

\* A vector given in whole units.
UnitVec(x, y, z) == Vec(x * Scale, y * Scale, z * Scale)

VSub(a, b) == Vec(a.x - b.x, a.y - b.y, a.z - b.z)

Dot(a, b) == FMul(a.x, b.x) + FMul(a.y, b.y) + FMul(a.z, b.z)

Length(v) == ISqrt(v.x * v.x + v.y * v.y + v.z * v.z)

\* Vector3::normalized (raylib): a zero-length vector is divided by 1.
Normalized(v) ==
    LET len == IF Length(v) = 0 THEN Scale ELSE Length(v)
    IN  Vec(FDiv(v.x, len), FDiv(v.y, len), FDiv(v.z, len))

Rgba(r, g, b, a) == [r |-> r, g |-> g, b |-> b, a |-> a]

\* Mutant: `as u8` rounds to the nearest integer instead of truncating.
AsU8_Round(x) ==
    IF x < 0 THEN 0
    ELSE IF (x + Scale \div 2) \div Scale > 255 THEN 255
    ELSE (x + Scale \div 2) \div Scale

\* `x as u8` of an f32 x (fixed point): truncation toward zero, saturating
\* at 0 and 255.
AsU8(x) ==
    IF x < 0 THEN 0
    ELSE IF x \div Scale > 255 THEN 255
    ELSE x \div Scale

\* ------------------------------------------------------------------------
\* rotate_vector
\* ------------------------------------------------------------------------

\* Mutant: the Y stage with the other handedness (x*cos + z*sin).
rotate_vector_OtherHand(v, angle_x, angle_y, angle_z) ==
    LET cos_y == Cos(angle_y)
        sin_y == Sin(angle_y)
        temp_x == FMul(v.x, cos_y) + FMul(v.z, sin_y)
        temp_z == FMul(v.z, cos_y) - FMul(v.x, sin_y)
        r1 == [v EXCEPT !.x = temp_x, !.z = temp_z]
        cos_x == Cos(angle_x)
        sin_x == Sin(angle_x)
        temp_y == FMul(r1.y, cos_x) - FMul(r1.z, sin_x)
        temp_z2 == FMul(r1.y, sin_x) + FMul(r1.z, cos_x)
        r2 == [r1 EXCEPT !.y = temp_y, !.z = temp_z2]
        cos_z == Cos(angle_z)
        sin_z == Sin(angle_z)
        temp_x2 == FMul(r2.x, cos_z) - FMul(r2.y, sin_z)
        temp_y2 == FMul(r2.x, sin_z) + FMul(r2.y, cos_z)
    IN  [r2 EXCEPT !.x = temp_x2, !.y = temp_y2]

\* Mutant: the X stage reads the z of the input, not the z the Y stage
\* wrote (the stages no longer feed each other).
rotate_vector_StaleZ(v, angle_x, angle_y, angle_z) ==
    LET cos_y == Cos(angle_y)
        sin_y == Sin(angle_y)
        temp_x == FMul(v.x, cos_y) - FMul(v.z, sin_y)
        temp_z == FMul(v.x, sin_y) + FMul(v.z, cos_y)
        r1 == [v EXCEPT !.x = temp_x, !.z = temp_z]
        cos_x == Cos(angle_x)
        sin_x == Sin(angle_x)
        temp_y == FMul(r1.y, cos_x) - FMul(v.z, sin_x)
        temp_z2 == FMul(r1.y, sin_x) + FMul(v.z, cos_x)
        r2 == [r1 EXCEPT !.y = temp_y, !.z = temp_z2]
        cos_z == Cos(angle_z)
        sin_z == Sin(angle_z)
        temp_x2 == FMul(r2.x, cos_z) - FMul(r2.y, sin_z)
        temp_y2 == FMul(r2.x, sin_z) + FMul(r2.y, cos_z)
    IN  [r2 EXCEPT !.x = temp_x2, !.y = temp_y2]

\* Mutant: temp_z of the Y stage reads x twice (x*sin + x*cos).
rotate_vector_TypoZ(v, angle_x, angle_y, angle_z) ==
    LET cos_y == Cos(angle_y)
        sin_y == Sin(angle_y)
        temp_x == FMul(v.x, cos_y) - FMul(v.z, sin_y)
        temp_z == FMul(v.x, sin_y) + FMul(v.x, cos_y)
        r1 == [v EXCEPT !.x = temp_x, !.z = temp_z]
        cos_x == Cos(angle_x)
        sin_x == Sin(angle_x)
        temp_y == FMul(r1.y, cos_x) - FMul(r1.z, sin_x)
        temp_z2 == FMul(r1.y, sin_x) + FMul(r1.z, cos_x)
        r2 == [r1 EXCEPT !.y = temp_y, !.z = temp_z2]
        cos_z == Cos(angle_z)
        sin_z == Sin(angle_z)
        temp_x2 == FMul(r2.x, cos_z) - FMul(r2.y, sin_z)
        temp_y2 == FMul(r2.x, sin_z) + FMul(r2.y, cos_z)
    IN  [r2 EXCEPT !.x = temp_x2, !.y = temp_y2]

\* fn rotate_vector(v, angle_x, angle_y, angle_z) -> Vector3
rotate_vector(v, angle_x, angle_y, angle_z) ==
    LET \* rotation about the Y axis
        cos_y == Cos(angle_y)
        sin_y == Sin(angle_y)
        temp_x == FMul(v.x, cos_y) - FMul(v.z, sin_y)
        temp_z == FMul(v.x, sin_y) + FMul(v.z, cos_y)
        r1 == [v EXCEPT !.x = temp_x, !.z = temp_z]
        \* rotation about the X axis
        cos_x == Cos(angle_x)
        sin_x == Sin(angle_x)
        temp_y == FMul(r1.y, cos_x) - FMul(r1.z, sin_x)
        temp_z2 == FMul(r1.y, sin_x) + FMul(r1.z, cos_x)
        r2 == [r1 EXCEPT !.y = temp_y, !.z = temp_z2]
        \* rotation about the Z axis
        cos_z == Cos(angle_z)
        sin_z == Sin(angle_z)
        temp_x2 == FMul(r2.x, cos_z) - FMul(r2.y, sin_z)
        temp_y2 == FMul(r2.x, sin_z) + FMul(r2.y, cos_z)
    IN  [r2 EXCEPT !.x = temp_x2, !.y = temp_y2]

\* ------------------------------------------------------------------------
\* calculate_diffuse_lighting
\* ------------------------------------------------------------------------

\* Mutant: the ambient term is left out of the total.
Lighting_NoAmbient(surface_position, surface_normal, light_position, ambient_intensity, diffuse_intensity) ==
    LET light_direction == Normalized(VSub(light_position, surface_position))
        dot_product == Max(Dot(surface_normal, light_direction), 0)
        lighting == FMul(diffuse_intensity, dot_product)
    IN  Min(lighting, Scale)

\* Mutant: the dot product is not clamped below by 0.
Lighting_NoBackfaceClamp(surface_position, surface_normal, light_position, ambient_intensity, diffuse_intensity) ==
    LET light_direction == Normalized(VSub(light_position, surface_position))
        dot_product == Dot(surface_normal, light_direction)
        lighting == ambient_intensity + FMul(diffuse_intensity, dot_product)
    IN  Min(lighting, Scale)

\* Mutant: the total is not clamped above by 1.
Lighting_NoMin(surface_position, surface_normal, light_position, ambient_intensity, diffuse_intensity) ==
    LET light_direction == Normalized(VSub(light_position, surface_position))
        dot_product == Max(Dot(surface_normal, light_direction), 0)
    IN  ambient_intensity + FMul(diffuse_intensity, dot_product)

\* The scalar `lighting` of calculate_diffuse_lighting (lines 44-51).
Lighting(surface_position, surface_normal, light_position, ambient_intensity, diffuse_intensity) ==
    LET \* vector from the surface to the light
        light_direction == Normalized(VSub(light_position, surface_position))
        dot_product == Max(Dot(surface_normal, light_direction), 0)
        \* ambient + diffuse
        lighting == ambient_intensity + FMul(diffuse_intensity, dot_product)
    IN  Min(lighting, Scale)

\* fn calculate_diffuse_lighting(...) -> Color.  A channel is a u8, exact as
\* an f32; its product with `lighting` is the fixed-point value c * lighting.
calculate_diffuse_lighting(surface_position, surface_normal, light_position, base_color, ambient_intensity, diffuse_intensity) ==
    LET lighting == Lighting(surface_position, surface_normal, light_position,
                             ambient_intensity, diffuse_intensity)
    IN  Rgba(AsU8(base_color.r * lighting),
             AsU8(base_color.g * lighting),
             AsU8(base_color.b * lighting),
             base_color.a)

\* ------------------------------------------------------------------------
\* main: constants and the per-frame computations
\* ------------------------------------------------------------------------

\* Degrees per second about X, Y and Z.
VelocityX == 20
VelocityY == 30
VelocityZ == 25

light_position == UnitVec(3, 4, 2)

ambient_intensity == (3 * Scale) \div 10

diffuse_intensity == (7 * Scale) \div 10

cube_position == UnitVec(0, 0, 0)

base_cube_color == Rgba(100, 150, 255, 255)

\* Mutant: the angle is kept within one turn.
AdvanceAngle_Wrapped(rotation, velocity, frame_time) ==
    (rotation + velocity * frame_time) % (360 * Quarter)

\* rotation += velocity * rl.get_frame_time()
AdvanceAngle(rotation, velocity, frame_time) ==
    rotation + velocity * frame_time

\* The shaded colour of the face whose unrotated normal is `normal`.
FaceColor(normal, rx, ry, rz) ==
    calculate_diffuse_lighting(
        cube_position,
        rotate_vector(normal, ToRadians(rx), ToRadians(ry), ToRadians(rz)),
        light_position, base_cube_color, ambient_intensity, diffuse_intensity)

\* Mutant: each channel is scaled by the average of the faces' own channel.
CompositeColor_PerChannel(front_color, top_color, right_color, base) ==
    Rgba((base.r * (front_color.r + top_color.r + right_color.r)) \div (3 * 255),
         (base.g * (front_color.g + top_color.g + right_color.g)) \div (3 * 255),
         (base.b * (front_color.b + top_color.b + right_color.b)) \div (3 * 255),
         255)

\* Mutant: the red sum is divided by the base red, not by 255.
CompositeColor_BaseRed(front_color, top_color, right_color, base) ==
    LET num == front_color.r + top_color.r + right_color.r
        den == 3 * base.r
    IN  Rgba(Min(255, (base.r * num) \div den),
             Min(255, (base.g * num) \div den),
             Min(255, (base.b * num) \div den),
             255)

\* avg_lighting and lit_cube_color (lines 178-184).  avg_lighting is the
\* quotient num / den of two small integers; base * avg_lighting is held
\* exactly and `as u8` truncates it.
CompositeColor(front_color, top_color, right_color, base) ==
    LET num == front_color.r + top_color.r + right_color.r
        den == 3 * 255
    IN  Rgba((base.r * num) \div den,
             (base.g * num) \div den,
             (base.b * num) \div den,
             255)

\* The draw commands of one frame, in order.
DrawCommands(lit_color) ==
    << [cmd |-> "plane", color |-> Rgba(100, 100, 100, 255)],
       [cmd |-> "cube", color |-> Rgba(20, 20, 20, 180)],
       [cmd |-> "cube", color |-> lit_color],
       [cmd |-> "cube_wires", color |-> Rgba(0, 0, 0, 255)] >>

\* ------------------------------------------------------------------------
\* State
\* ------------------------------------------------------------------------

VARIABLES
    rotation_x, rotation_y, rotation_z, \* degrees, counts of 1/4
    window_open,                        \* !rl.window_should_close()
    front_color, top_color, right_color, lit_cube_color,
    drawn,                              \* draw commands of the last frame
    elapsed,                            \* history: sum of the frame times
    rot_call, rot_result, rot_done,     \* one call of rotate_vector
    shade_call, shade_result, shade_done \* one call of the shading function

frameVars == << rotation_x, rotation_y, rotation_z, window_open, front_color,
                top_color, right_color, lit_cube_color, drawn, elapsed >>

rotVars == << rot_call, rot_result, rot_done >>

shadeVars == << shade_call, shade_result, shade_done >>

vars == << frameVars, rotVars, shadeVars >>

\* ------------------------------------------------------------------------
\* Bounds and inputs
\* ------------------------------------------------------------------------

\* Total running time of the frame loop, in quarter seconds.
MaxTime == 288

\* Frame times (quarter seconds): 0 (first frame), 0.25 s, 0.5 s, 1.0 s.
FrameTimes == {0, 1, 2, 4}

\* Components of rotate_vector's input vector: k/2 for |k| <= MaxCoord.
MaxCoord == 2

\* Angles of rotate_vector: k * 45 degrees for |k| <= MaxAngle.
MaxAngle == 2

\* Components of the shaded normal: whole units up to MaxNormal.
MaxNormal == 1

Coords == { (k * Scale) \div 2 : k \in (0 - MaxCoord) .. MaxCoord }

Angles == { k * (HalfTurn \div 4) : k \in (0 - MaxAngle) .. MaxAngle }

RotateCalls ==
    [v : [x : Coords, y : Coords, z : Coords],
     angle_x : Angles, angle_y : Angles, angle_z : Angles]

Normals ==
    { UnitVec(i, j, k) : i \in (0 - MaxNormal) .. MaxNormal,
                          j \in (0 - MaxNormal) .. MaxNormal,
                          k \in (0 - MaxNormal) .. MaxNormal }

SurfacePositions == { UnitVec(0, 0, 0), UnitVec(1, 0, 0) }

LightPositions ==
    { UnitVec(3, 4, 2), UnitVec(0, 0, -2), UnitVec(1, 0, 0), UnitVec(0, 3, 0) }

BaseColors ==
    { Rgba(100, 150, 255, 255), Rgba(255, 255, 255, 128), Rgba(7, 0, 201, 0) }

\* Intensities in tenths: negative, zero, the program's, one, above one.
AmbientInputs == { (k * Scale) \div 10 : k \in {-5, 0, 3, 10, 15} }

DiffuseInputs == { (k * Scale) \div 10 : k \in {-5, 0, 7, 20} }

\* Calls with the light away from the surface point.
ShadeCalls ==
    { c \in [surface_position : SurfacePositions, surface_normal : Normals,
            light_position : LightPositions, base_color : BaseColors,
            ambient_intensity : AmbientInputs,
            diffuse_intensity : DiffuseInputs] :
        c.light_position # c.surface_position }

NoColor == Rgba(0, 0, 0, 0)

\* ------------------------------------------------------------------------
\* The frame loop (fn main)
\* ------------------------------------------------------------------------

FrameInit ==
    /\ rotation_x = 0
    /\ rotation_y = 0
    /\ rotation_z = 0
    /\ window_open = TRUE
    /\ front_color = NoColor
    /\ top_color = NoColor
    /\ right_color = NoColor
    /\ lit_cube_color = NoColor
    /\ drawn = << >>
    /\ elapsed = 0

RotateIdle ==
    /\ rot_call = [v |-> Vec(0, 0, 0), angle_x |-> 0, angle_y |-> 0,
                   angle_z |-> 0]
    /\ rot_result = Vec(0, 0, 0)
    /\ rot_done = FALSE

ShadeIdle ==
    /\ shade_call = [surface_position |-> cube_position,
                     surface_normal |-> UnitVec(0, 0, 1),
                     light_position |-> light_position,
                     base_color |-> base_cube_color,
                     ambient_intensity |-> ambient_intensity,
                     diffuse_intensity |-> diffuse_intensity]
    /\ shade_result = [color |-> NoColor, lighting |-> 0]
    /\ shade_done = FALSE

\* One pass of the loop body with frame time `frame_time`: the three calls
\* of rl.get_frame_time() of one pass return the same value.  The camera
\* (update_camera, KEY_UP, KEY_DOWN) is written by the pass and read only by
\* the renderer: no angle and no colour depends on it, and it is not held.
Tick(frame_time) ==
    /\ window_open
    /\ elapsed + frame_time <= MaxTime
    /\ rotation_x' = AdvanceAngle(rotation_x, VelocityX, frame_time)
    /\ rotation_y' = AdvanceAngle(rotation_y, VelocityY, frame_time)
    /\ rotation_z' = AdvanceAngle(rotation_z, VelocityZ, frame_time)
    /\ front_color' = FaceColor(UnitVec(0, 0, 1),
                                rotation_x', rotation_y', rotation_z')
    /\ top_color' = FaceColor(UnitVec(0, 1, 0),
                              rotation_x', rotation_y', rotation_z')
    /\ right_color' = FaceColor(UnitVec(1, 0, 0),
                                rotation_x', rotation_y', rotation_z')
    /\ lit_cube_color' = CompositeColor(front_color', top_color',
                                        right_color', base_cube_color)
    /\ drawn' = DrawCommands(lit_cube_color')
    /\ elapsed' = elapsed + frame_time
    /\ UNCHANGED << window_open, rotVars, shadeVars >>

\* rl.window_should_close() turns true: the loop ends.
Close ==
    /\ window_open
    /\ window_open' = FALSE
    /\ UNCHANGED << rotation_x, rotation_y, rotation_z, front_color,
                    top_color, right_color, lit_cube_color, drawn, elapsed,
                    rotVars, shadeVars >>

Init == FrameInit /\ RotateIdle /\ ShadeIdle

Next == (\E frame_time \in FrameTimes : Tick(frame_time)) \/ Close

Spec == Init /\ [][Next]_vars

\* ------------------------------------------------------------------------
\* One call of rotate_vector on any input
\* ------------------------------------------------------------------------

InitRotate ==
    /\ FrameInit
    /\ ShadeIdle
    /\ rot_call \in RotateCalls
    /\ rot_result = Vec(0, 0, 0)
    /\ rot_done = FALSE

Rotate ==
    /\ ~rot_done
    /\ rot_result' = rotate_vector(rot_call.v, rot_call.angle_x,
                                   rot_call.angle_y, rot_call.angle_z)
    /\ rot_done' = TRUE
    /\ UNCHANGED << rot_call, frameVars, shadeVars >>

NextRotate == Rotate

SpecRotate == InitRotate /\ [][NextRotate]_vars

\* ------------------------------------------------------------------------
\* One call of calculate_diffuse_lighting on any input
\* ------------------------------------------------------------------------

InitShade ==
    /\ FrameInit
    /\ RotateIdle
    /\ shade_call \in ShadeCalls
    /\ shade_result = [color |-> NoColor, lighting |-> 0]
    /\ shade_done = FALSE

Shade ==
    /\ ~shade_done
    /\ shade_result' =
         [color |-> calculate_diffuse_lighting(
                        shade_call.surface_position, shade_call.surface_normal,
                        shade_call.light_position, shade_call.base_color,
                        shade_call.ambient_intensity,
                        shade_call.diffuse_intensity),
          lighting |-> Lighting(
                        shade_call.surface_position, shade_call.surface_normal,
                        shade_call.light_position,
                        shade_call.ambient_intensity,
                        shade_call.diffuse_intensity)]
    /\ shade_done' = TRUE
    /\ UNCHANGED << shade_call, frameVars, rotVars >>

NextShade == Shade

SpecShade == InitShade /\ [][NextShade]_vars

\* ------------------------------------------------------------------------
\* Properties of rotate_vector (checked under SpecRotate)
\* ------------------------------------------------------------------------

Abs(a) == IF a < 0 THEN 0 - a ELSE a

\* |a - b| <= 1e-4, both fixed-point values.
Near(a, b) == 10000 * Abs(a - b) <= Scale

NearVec(v, x, y, z) ==
    Near(v.x, x * Scale) /\ Near(v.y, y * Scale) /\ Near(v.z, z * Scale)

\* The call rotate_vector((0,0,1), 0, 90 degrees as radians, 0).
QuarterTurnAboutY ==
    rot_call = [v |-> UnitVec(0, 0, 1), angle_x |-> 0,
                angle_y |-> ToRadians(90 * Quarter), angle_z |-> 0]

\* C1 as stated: rotating (0,0,1) by (0, 90 degrees, 0) yields (1,0,0)
\* within 1e-4 per component.
C1_YieldsPlusX == (rot_done /\ QuarterTurnAboutY) => NearVec(rot_result, 1, 0, 0)

\* C1 amended: rotating (0,0,1) by (0, 90 degrees, 0) yields (-1,0,0) within
\* 1e-4 per component (the Y stage computes x' = x*cos - z*sin).
C1_YieldsMinusX == (rot_done /\ QuarterTurnAboutY) => NearVec(rot_result, -1, 0, 0)

C1_Witness == rot_done /\ QuarterTurnAboutY

\* The three single-axis rotations as C2 states them.
AboutY(v, a) ==
    Vec(FMul(v.x, Cos(a)) - FMul(v.z, Sin(a)),
        v.y,
        FMul(v.x, Sin(a)) + FMul(v.z, Cos(a)))

AboutX(v, a) ==
    Vec(v.x,
        FMul(v.y, Cos(a)) - FMul(v.z, Sin(a)),
        FMul(v.y, Sin(a)) + FMul(v.z, Cos(a)))

AboutZ(v, a) ==
    Vec(FMul(v.x, Cos(a)) - FMul(v.y, Sin(a)),
        FMul(v.x, Sin(a)) + FMul(v.y, Cos(a)),
        v.z)

\* The five other axis orders, applied to a call (first letter first).
OtherOrders(c) ==
    { AboutZ(AboutY(AboutX(c.v, c.angle_x), c.angle_y), c.angle_z),
      AboutY(AboutZ(AboutX(c.v, c.angle_x), c.angle_z), c.angle_y),
      AboutX(AboutZ(AboutY(c.v, c.angle_y), c.angle_z), c.angle_x),
      AboutY(AboutX(AboutZ(c.v, c.angle_z), c.angle_x), c.angle_y),
      AboutX(AboutY(AboutZ(c.v, c.angle_z), c.angle_y), c.angle_x) }

\* C2: for every vector and angle triple the result is Rz(az) of Rx(ax) of
\* Ry(ay) of v, each stage fed with the previous stage's output.
C2_YThenXThenZ ==
    rot_done =>
        rot_result = AboutZ(AboutX(AboutY(rot_call.v, rot_call.angle_y),
                                   rot_call.angle_x), rot_call.angle_z)

\* C2, second half: an input on which every other axis order gives another
\* result than the call did.
C2_Witness == rot_done /\ rot_result \notin OtherOrders(rot_call)

ZeroAngles ==
    rot_call.angle_x = 0 /\ rot_call.angle_y = 0 /\ rot_call.angle_z = 0

\* C3: with all three angles 0 the result is the input vector, component by
\* component.
C3_ZeroAnglesIdentity == (rot_done /\ ZeroAngles) => rot_result = rot_call.v

C3_Witness ==
    /\ rot_done
    /\ ZeroAngles
    /\ rot_call.v.x # 0
    /\ rot_call.v.x # rot_call.v.y
    /\ rot_call.v.y # rot_call.v.z
    /\ rot_call.v.x # rot_call.v.z

\* ------------------------------------------------------------------------
\* Properties of calculate_diffuse_lighting (checked under SpecShade)
\* ------------------------------------------------------------------------

\* floor of a fixed-point value.
Floor(x) == x \div Scale

\* dot(n, normalize(l - p)) of the call, before any clamp.
CallDot ==
    Dot(shade_call.surface_normal,
        Normalized(VSub(shade_call.light_position, shade_call.surface_position)))

\* min(1, ambient + diffuse * max(0, dot(n, normalize(l - p)))) of the call.
CallLighting ==
    Min(Scale, shade_call.ambient_intensity
               + FMul(shade_call.diffuse_intensity, Max(0, CallDot)))

\* C4 as stated: r, g, b are floor(baseChannel * lighting), alpha is the
\* base colour's.
C4_FloorOfProduct ==
    shade_done =>
        /\ shade_result.color.r = Floor(shade_call.base_color.r * CallLighting)
        /\ shade_result.color.g = Floor(shade_call.base_color.g * CallLighting)
        /\ shade_result.color.b = Floor(shade_call.base_color.b * CallLighting)
        /\ shade_result.color.a = shade_call.base_color.a

\* C4 amended: r, g, b are floor(baseChannel * lighting) when that is not
\* negative and 0 when it is (the conversion to u8 saturates); alpha is the
\* base colour's.
C4_FloorOrZero ==
    shade_done =>
        /\ shade_result.color.r
             = Max(0, Floor(shade_call.base_color.r * CallLighting))
        /\ shade_result.color.g
             = Max(0, Floor(shade_call.base_color.g * CallLighting))
        /\ shade_result.color.b
             = Max(0, Floor(shade_call.base_color.b * CallLighting))
        /\ shade_result.color.a = shade_call.base_color.a

\* A call lit partly by the diffuse term, whose red product has a fraction
\* of a half or more: truncation and rounding differ.
C4_Witness ==
    /\ shade_done
    /\ CallDot > 0
    /\ shade_call.diffuse_intensity > 0
    /\ CallLighting > 0
    /\ CallLighting < Scale
    /\ 2 * ((shade_call.base_color.r * CallLighting) % Scale) >= Scale

FullAmbient ==
    shade_call.ambient_intensity = Scale /\ shade_call.diffuse_intensity = 0

\* C5: with ambient = 1 and diffuse = 0 the result is the base colour, all
\* four channels, whatever the normal and the positions.
C5_FullAmbientKeepsBase ==
    (shade_done /\ FullAmbient) => shade_result.color = shade_call.base_color

C5_Witness ==
    /\ shade_done
    /\ FullAmbient
    /\ CallDot > 0
    /\ shade_call.base_color = base_cube_color

\* C6 as stated: facing away from the light, lighting is the ambient
\* intensity and each of r, g, b is floor(baseChannel * ambient); with
\* ambient = 0 and diffuse = 0 they are 0 and alpha is unchanged.
C6_AmbientAlone ==
    (shade_done /\ CallDot < 0) =>
        /\ shade_result.lighting = shade_call.ambient_intensity
        /\ shade_result.color.r
             = Floor(shade_call.base_color.r * shade_call.ambient_intensity)
        /\ shade_result.color.g
             = Floor(shade_call.base_color.g * shade_call.ambient_intensity)
        /\ shade_result.color.b
             = Floor(shade_call.base_color.b * shade_call.ambient_intensity)
        /\ shade_result.color.a = shade_call.base_color.a

\* C6 amended: facing away from the light, lighting is min(1, ambient)
\* whatever the diffuse intensity, and each of r, g, b is
\* floor(baseChannel * min(1, ambient)), or 0 when that is negative; with
\* ambient = 0 and diffuse = 0 they are 0; alpha is unchanged.
C6_ClampedAmbientAlone ==
    (shade_done /\ CallDot < 0) =>
        LET amb == Min(Scale, shade_call.ambient_intensity)
        IN  /\ shade_result.lighting = amb
            /\ shade_result.color.r
                 = Max(0, Floor(shade_call.base_color.r * amb))
            /\ shade_result.color.g
                 = Max(0, Floor(shade_call.base_color.g * amb))
            /\ shade_result.color.b
                 = Max(0, Floor(shade_call.base_color.b * amb))
            /\ shade_result.color.a = shade_call.base_color.a
            /\ (shade_call.ambient_intensity = 0
                /\ shade_call.diffuse_intensity = 0)
               => /\ shade_result.color.r = 0
                  /\ shade_result.color.g = 0
                  /\ shade_result.color.b = 0

C6_Witness ==
    /\ shade_done
    /\ CallDot < 0
    /\ shade_call.diffuse_intensity > 0
    /\ shade_call.ambient_intensity = ambient_intensity
    /\ shade_call.base_color = base_cube_color

ChannelsWithinBase ==
    /\ shade_result.color \in [r : 0 .. 255, g : 0 .. 255, b : 0 .. 255,
                               a : 0 .. 255]
    /\ shade_result.color.r <= shade_call.base_color.r
    /\ shade_result.color.g <= shade_call.base_color.g
    /\ shade_result.color.b <= shade_call.base_color.b

\* C9 as stated: for all inputs, negative intensities included, the
\* lighting factor is in [0, 1] and every output channel is between 0 and
\* the base channel.
C9_FactorInUnitInterval ==
    shade_done =>
        /\ 0 <= shade_result.lighting
        /\ shade_result.lighting <= Scale
        /\ ChannelsWithinBase

\* C9 amended: for all inputs, negative intensities included, the lighting
\* factor is at most 1 (it is negative when ambient + diffuse * ndotl is)
\* and every output channel is a u8 between 0 and the base channel.
C9_FactorAtMostOne ==
    shade_done => (shade_result.lighting <= Scale /\ ChannelsWithinBase)

C9_Witness ==
    /\ shade_done
    /\ shade_result.lighting < 0
    /\ shade_call.base_color.r > 0
    /\ shade_result.color.r = 0

\* ------------------------------------------------------------------------
\* Properties of the frame loop (checked under Spec)
\* ------------------------------------------------------------------------

ShadedFace(x, y, z) ==
    calculate_diffuse_lighting(
        UnitVec(0, 0, 0),
        rotate_vector(UnitVec(x, y, z), ToRadians(rotation_x),
                      ToRadians(rotation_y), ToRadians(rotation_z)),
        UnitVec(3, 4, 2), Rgba(100, 150, 255, 255),
        (3 * Scale) \div 10, (7 * Scale) \div 10)

RedSum == front_color.r + top_color.r + right_color.r

=============================================================================
